---- MODULE Spec2Model ----
(***************************************************************************)
(* Model of MarkovModelClasses.py: Patient, PatientStateMonitor, Cohort    *)
(* and CohortOutcomes.                                                     *)
(*                                                                         *)
(* Encodings.                                                              *)
(*  - A time is held in half-cycles: the Python value t + 0.5 is the       *)
(*    integer 2*t + 1 (HalfCycle).  A mean is the reduced fraction         *)
(*    [num, den] of half-cycles.                                           *)
(*  - None is the empty sequence << >>, a set value v is << v >>.          *)
(*  - A probability is an integer number of units of 1/Denom; a uniform    *)
(*    draw u in [0,1) is an integer in 0..Denom-1 standing for u/Denom.    *)
(*  - The random stream of a seed is a fixed sequence of draws; the model  *)
(*    reveals it draw by draw (stream) and every generator seeded with     *)
(*    that seed reads the same sequence from position 0.                   *)
(***************************************************************************)
EXTENDS Integers, Sequences, FiniteSets, TLC

\* ------------------------------------------------------------------ bounds
MaxPop == 3         \* population sizes 1..MaxPop
MaxSteps == 3       \* horizons n_time_steps 1..MaxSteps
RepeatPop == 1      \* population sizes 1..RepeatPop of a cohort simulated repeatedly
RepeatSteps == 2    \* horizons 1..RepeatSteps of a cohort simulated repeatedly
MaxCalls == 2       \* Cohort.simulate calls made on a cohort simulated repeatedly
MaxCohortId == 1    \* cohort ids 0..MaxCohortId
Denom == 2          \* probabilities and draws are multiples of 1/Denom
PairPop == 2        \* population sizes 1..PairPop when two cohorts are compared
PairSteps == 2      \* horizons 1..PairSteps when two cohorts are compared
MaxTimeStep == 3    \* time steps 0..MaxTimeStep of direct PatientStateMonitor.update calls
MaxNoOps == 2       \* direct update calls made on a monitor that is already HIV_DEATH

\* --------------------------------------------------- InputData.HealthState
CD4_200to500 == 0
CD4_200 == 1
AIDS == 2
HIV_DEATH == 3

HealthStates == {CD4_200to500, CD4_200, AIDS, HIV_DEATH}

None == << >>
Some(v) == << v >>
IsSet(o) == o # None
Val(o) == o[1]

\* the Cohort objects a driver may build
Runs == {1, 2}

VARIABLES
    matrix,       \* the transition matrix shared by all patients
    nTimeSteps,   \* the horizon passed to every simulate call
    popSize,      \* pop_size of the cohorts
    cohortId,     \* cohortId[r]: Cohort.id
    driver,       \* "single": one cohort, simulated once;
                  \* "repeat": one cohort, simulated up to MaxCalls times;
                  \* "pair": two cohorts, each simulated once;
                  \* "batch": as "pair", but the caller runs the
                  \* Patient.simulate calls of cohort 2 concurrently;
                  \* "monitor": one cohort, its monitors updated directly;
                  \* "build": the cohorts are constructed, each with its own
                  \* id and pop_size; "sampler": Empirical is sampled on its own
    patients,     \* patients[r]: Cohort.patients, << >> while cohort r is not built
    stream,       \* stream[seed]: draws of RNG(seed) revealed and still to be replayed
    pc,           \* pc[r]: "absent", "building", "idle", "simulating", "done",
                  \* "raised"
    cur,          \* cur[r]: 1-based position of the patient loop of Cohort.simulate
    exc,          \* exc[r]: the exception the last call raised, "" when none
    outcomes,     \* outcomes[r]: Cohort.cohortOutcomes
    nCalls,       \* nCalls[r]: Cohort.simulate calls started
    nExtract,     \* nExtract[r]: extract_outcomes calls started
    nAborted,     \* nAborted[r]: Cohort.simulate calls left by a sampling error
    sampled       \* the call Empirical(probabilities).sample(rng) made on its own:
                  \* [probabilities, u, index, exc]; None when no such call is made

vars == << matrix, nTimeSteps, popSize, cohortId, driver, patients, stream,
           pc, cur, exc, outcomes, nCalls, nExtract, nAborted, sampled >>

\* ------------------------------------------------------ transition matrices
Row(a, b, c, d) == [s \in HealthStates |->
                      IF s = CD4_200to500 THEN a
                      ELSE IF s = CD4_200 THEN b
                      ELSE IF s = AIDS THEN c ELSE d]

Unit(s) == [t \in HealthStates |-> IF t = s THEN Denom ELSE 0]

\* every state stays where it is
IdentityMatrix == [s \in HealthStates |-> Unit(s)]

\* every row moves to HIV_DEATH with probability 1
AllTerminalMatrix == [s \in HealthStates |-> Unit(HIV_DEATH)]

\* progression only: CD4_200to500 -> CD4_200 -> AIDS -> HIV_DEATH, never back
ProgressiveMatrix ==
    [s \in HealthStates |->
        IF s = CD4_200to500 THEN Row(1, Denom - 1, 0, 0)
        ELSE IF s = CD4_200 THEN Row(0, 0, Denom - 1, 1)
        ELSE IF s = AIDS THEN Row(0, 0, Denom - 1, 1)
        ELSE Unit(HIV_DEATH)]

\* AIDS can be left for CD4_200 and entered again
RelapsingMatrix ==
    [s \in HealthStates |->
        IF s = CD4_200to500 THEN Row(1, 0, Denom - 1, 0)
        ELSE IF s = CD4_200 THEN Row(0, 1, Denom - 1, 0)
        ELSE IF s = AIDS THEN Row(0, Denom - 1, 0, 1)
        ELSE Unit(HIV_DEATH)]

\* the row of CD4_200 has a negative entry (and sums to 1)
NegativeRowMatrix ==
    [s \in HealthStates |->
        IF s = CD4_200to500 THEN Row(1, Denom - 1, 0, 0)
        ELSE IF s = CD4_200 THEN Row(Denom + 1, 0, 0 - 1, 0)
        ELSE Unit(s)]

\* the row of AIDS sums to less than 1
ShortRowMatrix ==
    [s \in HealthStates |->
        IF s = CD4_200to500 THEN Row(1, 0, Denom - 1, 0)
        ELSE IF s = AIDS THEN Row(0, 0, Denom - 1, 0)
        ELSE Unit(s)]

Matrices == {IdentityMatrix, AllTerminalMatrix, ProgressiveMatrix, RelapsingMatrix,
             NegativeRowMatrix, ShortRowMatrix}

\* ------------------------------------------------------------- arithmetic
RECURSIVE SumSeq(_)
SumSeq(s) == IF s = << >> THEN 0 ELSE Head(s) + SumSeq(Tail(s))

RECURSIVE Gcd(_, _)
Gcd(a, b) == IF b = 0 THEN a ELSE Gcd(b, a % b)

\* t + 0.5 in half-cycles
HalfCycle(time_step) == 2 * time_step + 1

\* sum(xs) / len(xs), for a non-empty xs of positive half-cycle counts
Mean(xs) ==
    LET g == Gcd(SumSeq(xs), Len(xs))
    IN  [num |-> SumSeq(xs) \div g, den |-> Len(xs) \div g]

\* sorted(xs): insertion sort, ascending, stable
RECURSIVE Insert(_, _)
Insert(x, s) ==
    IF s = << >> THEN << x >>
    ELSE IF x < Head(s) THEN << x >> \o s
    ELSE << Head(s) >> \o Insert(x, Tail(s))

RECURSIVE Sorted(_)
Sorted(s) == IF s = << >> THEN << >> ELSE Insert(s[Len(s)], Sorted(SubSeq(s, 1, Len(s) - 1)))

\* ------------------------------------------- RVGs.Empirical and RVGs.RNG
\* cumulative sum c_j of the row, in units of 1/Denom
CumSum(row, j) == SumSeq([i \in 1..(j + 1) |-> row[i - 1]])

\* a validation that tests the sum only
ValidRowSumOnly(row) == CumSum(row, HIV_DEATH) = Denom

\* Empirical(probabilities=row) accepts the row: no negative entry, sum 1
ValidRow(row) ==
    /\ \A s \in HealthStates : row[s] >= 0
    /\ CumSum(row, HIV_DEATH) = Denom

\* a sampler that takes the first index whose cumulative sum reaches u
\* (searchsorted with side='left'), the last index when none does
SampleAtLeast(row, u) ==
    IF \E j \in HealthStates : CumSum(row, j) >= u
    THEN CHOOSE j \in HealthStates :
            /\ CumSum(row, j) >= u
            /\ \A i \in HealthStates : i < j => CumSum(row, i) < u
    ELSE HIV_DEATH

\* Empirical.sample for the uniform draw u: the first index whose cumulative
\* sum exceeds u (numpy's choice: searchsorted(cdf, u, side='right'))
Sample(row, u) ==
    CHOOSE j \in HealthStates :
        /\ CumSum(row, j) > u
        /\ \A i \in HealthStates : i < j => CumSum(row, i) <= u

Draws == 0..(Denom - 1)

\* the seeds cohorts of n patients can use
Seeds(n) == 0..((MaxCohortId + 1) * n - 1)


\* the generators seeded with seed: the patients of the cohorts built, by id
Generators(ps, seed) ==
    {g \in UNION {{r} \X (DOMAIN ps[r]) : r \in Runs} : ps[g[1]][g[2]].id = seed}

\* the first position of the stream of seed that some generator has yet to read
Floor(ps, seed) ==
    LET pos == {ps[g[1]][g[2]].rngPos : g \in Generators(ps, seed)}
    IN  IF pos = {} THEN 0 ELSE CHOOSE m \in pos : \A x \in pos : m <= x

\* RNG(seed) is a fixed sequence: the draw at position pos is free while
\* that position is unrevealed, the revealed value afterwards
UnseededNext(seed, pos, u) == TRUE

StreamNext(seed, pos, u) ==
    LET idx == pos - Floor(patients, seed) + 1
    IN  idx <= Len(stream[seed]) => u = stream[seed][idx]

\* a generator whose draws are not a function of its seed: nothing is kept
RevealNothing(seed, pos, u, ps) == stream

\* the stream after the draw u at position pos left the patients as ps: the
\* draw is kept while a generator of the seed has yet to reach it
Reveal(seed, pos, u, ps) ==
    LET idx == pos - Floor(patients, seed) + 1
        all == IF idx <= Len(stream[seed]) THEN stream[seed]
               ELSE Append(stream[seed], u)
        drop == Floor(ps, seed) - Floor(patients, seed)
    IN  [stream EXCEPT ![seed] = SubSeq(all, drop + 1, Len(all))]

\* ---------------------------------------------------- PatientStateMonitor
NewMonitor ==
    [currentState |-> CD4_200to500,
     survivalTime |-> None,
     timeToAIDS |-> None,
     ifDevelopedAIDS |-> FALSE]

\* a monitor that never reports death
always_alive(m) == TRUE

get_if_alive(m) == m.currentState # HIV_DEATH

\* update without the "if the patient has died, do nothing" return
update_unguarded(m, time_step, new_state) ==
    LET m1 == IF new_state = HIV_DEATH
              THEN [m EXCEPT !.survivalTime = Some(HalfCycle(time_step))]
              ELSE m
        m2 == IF m.currentState # AIDS /\ new_state = AIDS
              THEN [m1 EXCEPT !.ifDevelopedAIDS = TRUE,
                              !.timeToAIDS = Some(HalfCycle(time_step))]
              ELSE m1
    IN  [m2 EXCEPT !.currentState = new_state]

\* update without "self.currentState = new_state"
update_state_kept(m, time_step, new_state) ==
    IF m.currentState = HIV_DEATH THEN m
    ELSE LET m1 == IF new_state = HIV_DEATH
                   THEN [m EXCEPT !.survivalTime = Some(HalfCycle(time_step))]
                   ELSE m
         IN  IF m.currentState # AIDS /\ new_state = AIDS
             THEN [m1 EXCEPT !.ifDevelopedAIDS = TRUE,
                             !.timeToAIDS = Some(HalfCycle(time_step))]
             ELSE m1

\* update without "self.timeToAIDS = time_step + 0.5"
update_time_forgotten(m, time_step, new_state) ==
    IF m.currentState = HIV_DEATH THEN m
    ELSE LET m1 == IF new_state = HIV_DEATH
                   THEN [m EXCEPT !.survivalTime = Some(HalfCycle(time_step))]
                   ELSE m
             m2 == IF m.currentState # AIDS /\ new_state = AIDS
                   THEN [m1 EXCEPT !.ifDevelopedAIDS = TRUE]
                   ELSE m1
         IN  [m2 EXCEPT !.currentState = new_state]

\* update whose "has died" test protects the survival time only
update_survival_guarded(m, time_step, new_state) ==
    LET m1 == IF m.currentState # HIV_DEATH /\ new_state = HIV_DEATH
              THEN [m EXCEPT !.survivalTime = Some(HalfCycle(time_step))]
              ELSE m
        m2 == IF m.currentState # AIDS /\ new_state = AIDS
              THEN [m1 EXCEPT !.ifDevelopedAIDS = TRUE,
                              !.timeToAIDS = Some(HalfCycle(time_step))]
              ELSE m1
    IN  [m2 EXCEPT !.currentState = new_state]

update(m, time_step, new_state) ==
    IF m.currentState = HIV_DEATH THEN m
    ELSE LET m1 == IF new_state = HIV_DEATH
                   THEN [m EXCEPT !.survivalTime = Some(HalfCycle(time_step))]
                   ELSE m
             m2 == IF m.currentState # AIDS /\ new_state = AIDS
                   THEN [m1 EXCEPT !.ifDevelopedAIDS = TRUE,
                                   !.timeToAIDS = Some(HalfCycle(time_step))]
                   ELSE m1
         IN  [m2 EXCEPT !.currentState = new_state]

\* ---------------------------------------------------------------- Patient
\* rngPos: draws taken from self.rng; k: the local k of the latest simulate;
\* noOps: update calls that found the monitor already HIV_DEATH
NewPatient(id) ==
    [id |-> id, rngPos |-> 0, k |-> 0, noOps |-> 0, stateMonitor |-> NewMonitor]

\* self.stateMonitor.update(time_step, new_state) on patient p
CallUpdate(p, time_step, new_state) ==
    [p EXCEPT !.stateMonitor = update(@, time_step, new_state),
              !.noOps = IF p.stateMonitor.currentState = HIV_DEATH THEN @ + 1 ELSE @]

\* an id that adds the cohort id instead of scaling it by pop_size
PatientIdOffset(cid, n, i) == cid + i

\* id * pop_size + i
PatientId(cid, n, i) == cid * n + i

NewCohort(cid, n) == [i \in 1..n |-> NewPatient(PatientId(cid, n, i - 1))]

\* a while condition that lets k reach n_time_steps
RunningOneMore(p) == get_if_alive(p.stateMonitor) /\ p.k <= nTimeSteps

\* the while condition of Patient.simulate
Running(p) == get_if_alive(p.stateMonitor) /\ p.k < nTimeSteps

\* a loop that passes the steps left instead of the steps done
IterateCountdown(p, u) ==
    LET row == matrix[p.stateMonitor.currentState]
    IN  [CallUpdate(p, nTimeSteps - 1 - p.k, Sample(row, u))
            EXCEPT !.rngPos = @ + 1, !.k = @ + 1]

\* an iteration that takes its time step from a counter all the simulate
\* calls in progress share
IterateSharedClock(p, u) ==
    LET row == matrix[p.stateMonitor.currentState]
        steps == [r \in 1..Cardinality(Runs) |->
                    IF pc[r] = "simulating"
                    THEN SumSeq([i \in 1..Len(patients[r]) |-> patients[r][i].k])
                    ELSE 0]
    IN  [CallUpdate(p, SumSeq(steps), Sample(row, u))
            EXCEPT !.rngPos = @ + 1, !.k = @ + 1]

\* an iteration that samples twice and keeps the second draw
IterateTwoDraws(p, u) ==
    LET row == matrix[p.stateMonitor.currentState]
    IN  [CallUpdate(p, p.k, Sample(row, u))
            EXCEPT !.rngPos = @ + 2, !.k = @ + 1]

\* one iteration of the while loop, for the draw u
Iterate(p, u) ==
    LET row == matrix[p.stateMonitor.currentState]
    IN  [CallUpdate(p, p.k, Sample(row, u))
            EXCEPT !.rngPos = @ + 1, !.k = @ + 1]

\* --------------------------------------------------------- CohortOutcomes
NewOutcomes ==
    [survivalTimes |-> << >>,
     timesToAIDS |-> << >>,
     meanSurvivalTime |-> None,
     meanTimeToAIDS |-> None,
     nLivingPatients |-> None]

\* the appends of the scan over ps[from..], in order
RECURSIVE ScanSurvival(_, _, _)
ScanSurvival(acc, ps, from) ==
    IF from > Len(ps) THEN acc
    ELSE ScanSurvival(
            IF IsSet(ps[from].stateMonitor.survivalTime)
            THEN Append(acc, Val(ps[from].stateMonitor.survivalTime)) ELSE acc,
            ps, from + 1)

\* timeToAIDS is appended as it is, None (<< >>) included
RECURSIVE ScanAIDS(_, _, _)
ScanAIDS(acc, ps, from) ==
    IF from > Len(ps) THEN acc
    ELSE ScanAIDS(
            IF ps[from].stateMonitor.ifDevelopedAIDS
            THEN Append(acc, ps[from].stateMonitor.timeToAIDS) ELSE acc,
            ps, from + 1)

\* PrevalencePathBatchUpdate: initial size and the changes ordered by time
PrevalencePath(initial_size, times_of_changes) ==
    [initial_size |-> initial_size,
     times |-> Sorted(times_of_changes),
     increments |-> [i \in 1..Len(times_of_changes) |-> 0 - 1]]

\* extract_outcomes(ps) on the outcomes o: the outcomes it leaves and the
\* exception it raises ("" when it returns)
extract_outcomes(o, ps) ==
    LET st == ScanSurvival(o.survivalTimes, ps, 1)
        ta == ScanAIDS(o.timesToAIDS, ps, 1)
        o1 == [o EXCEPT !.survivalTimes = st, !.timesToAIDS = ta]
    IN  IF Len(st) = 0
        THEN [out |-> o1, exc |-> "ZeroDivisionError"]
        ELSE LET o2 == [o1 EXCEPT !.meanSurvivalTime = Some(Mean(st))]
             IN  IF Len(ta) = 0
                 THEN [out |-> o2, exc |-> "ZeroDivisionError"]
                 ELSE [out |-> [o2 EXCEPT
                                  !.meanTimeToAIDS = Some(Mean([i \in 1..Len(ta) |-> Val(ta[i])])),
                                  !.nLivingPatients = Some(PrevalencePath(Len(ps), st))],
                       exc |-> ""]

\* ----------------------------------------------------------------- Cohort
Built(r) == driver \in {"pair", "batch"} \/ r = 1

Schedule(r) == IF driver = "batch" /\ r = 2 THEN "batch" ELSE "sequential"

CallLimit == IF driver = "repeat" THEN MaxCalls ELSE 1

\* the cohorts are built; nothing is simulated yet
Construct ==
    /\ matrix \in Matrices
    /\ cohortId \in [Runs -> 0..MaxCohortId]
    /\ \A r \in Runs : cohortId[r] = IF Built(r) THEN cohortId[1] ELSE 0
    /\ patients = [r \in Runs |->
                     IF Built(r) THEN NewCohort(cohortId[r], popSize) ELSE << >>]
    /\ stream = [s \in Seeds(popSize) |-> << >>]
    /\ pc = [r \in Runs |-> IF Built(r) THEN "idle" ELSE "absent"]
    /\ cur = [r \in Runs |-> 0]
    /\ exc = [r \in Runs |-> ""]
    /\ outcomes = [r \in Runs |-> NewOutcomes]
    /\ nCalls = [r \in Runs |-> 0]
    /\ nExtract = [r \in Runs |-> 0]
    /\ nAborted = [r \in Runs |-> 0]
    /\ sampled = None

Init ==
    /\ driver = "single"
    /\ nTimeSteps \in 1..MaxSteps
    /\ popSize \in 1..MaxPop
    /\ Construct

Inputs == << matrix, nTimeSteps, popSize, cohortId, driver >>

AtRest(r) == pc[r] \in {"absent", "idle", "done", "raised"}

\* the driver is single-threaded: one call at a time, the cohorts in order
MayCall(r) ==
    /\ pc[r] # "absent"
    /\ \A q \in Runs : AtRest(q)
    /\ \A q \in Runs : q < r => nCalls[q] = CallLimit
    /\ nCalls[r] < CallLimit

\* Cohort.simulate is entered; the loop reaches its first patient, whose
\* simulate sets k = 0
CohortSimulate(r) ==
    /\ Schedule(r) = "sequential"
    /\ MayCall(r)
    /\ pc' = [pc EXCEPT ![r] = "simulating"]
    /\ cur' = [cur EXCEPT ![r] = 1]
    /\ exc' = [exc EXCEPT ![r] = ""]
    /\ nCalls' = [nCalls EXCEPT ![r] = @ + 1]
    /\ patients' = [patients EXCEPT ![r][1].k = 0]
    /\ UNCHANGED << Inputs, sampled, stream, outcomes, nExtract, nAborted >>

\* patient i of cohort r runs one iteration of its while loop
Step(r, i) ==
    LET p == patients[r][i]
    IN  /\ Running(p)
        /\ ValidRow(matrix[p.stateMonitor.currentState])
        /\ \E u \in Draws :
              /\ StreamNext(p.id, p.rngPos, u)
              /\ patients' = [patients EXCEPT ![r][i] = Iterate(p, u)]
              /\ stream' = Reveal(p.id, p.rngPos, u, patients')
        /\ UNCHANGED << Inputs, sampled, pc, cur, exc, outcomes, nCalls, nExtract, nAborted >>

\* Empirical rejects the row of patient i: ValueError leaves Patient.simulate
\* and Cohort.simulate
Raise(r, i) ==
    LET p == patients[r][i]
    IN  /\ Running(p)
        /\ ~ValidRow(matrix[p.stateMonitor.currentState])
        /\ pc' = [pc EXCEPT ![r] = "raised"]
        /\ exc' = [exc EXCEPT ![r] = "ValueError"]
        /\ nAborted' = [nAborted EXCEPT ![r] = @ + 1]
        /\ UNCHANGED << Inputs, sampled, patients, stream, cur, outcomes, nCalls, nExtract >>

\* self.cohortOutcomes.extract_outcomes(self.patients), then Cohort.simulate
\* returns or ZeroDivisionError leaves it
Extract(r) ==
    LET res == extract_outcomes(outcomes[r], patients[r])
    IN  /\ outcomes' = [outcomes EXCEPT ![r] = res.out]
        /\ exc' = [exc EXCEPT ![r] = res.exc]
        /\ pc' = [pc EXCEPT ![r] = IF res.exc = "" THEN "done" ELSE "raised"]
        /\ nExtract' = [nExtract EXCEPT ![r] = @ + 1]
        /\ UNCHANGED << Inputs, sampled, patients, stream, cur, nCalls, nAborted >>

InLoop(r) ==
    /\ Schedule(r) = "sequential"
    /\ pc[r] = "simulating"
    /\ cur[r] <= popSize

PatientStep(r) == InLoop(r) /\ Step(r, cur[r])

PatientRaise(r) == InLoop(r) /\ Raise(r, cur[r])

\* the while loop of the current patient ends; the for loop moves on
PatientReturn(r) ==
    /\ InLoop(r)
    /\ ~Running(patients[r][cur[r]])
    /\ cur' = [cur EXCEPT ![r] = @ + 1]
    /\ patients' = IF cur[r] < popSize
                   THEN [patients EXCEPT ![r][cur[r] + 1].k = 0]
                   ELSE patients
    /\ UNCHANGED << Inputs, sampled, stream, pc, exc, outcomes, nCalls, nExtract, nAborted >>

\* a for loop taken to be over when it reaches its last patient
LoopOverEarly(r) == cur[r] >= popSize

\* the for loop over self.patients is over
LoopOver(r) == cur[r] > popSize

CohortExtract(r) ==
    /\ Schedule(r) = "sequential"
    /\ pc[r] = "simulating"
    /\ LoopOver(r)
    /\ Extract(r)

Next ==
    \E r \in Runs :
        \/ CohortSimulate(r)
        \/ PatientStep(r)
        \/ PatientRaise(r)
        \/ PatientReturn(r)
        \/ CohortExtract(r)

Spec == Init /\ [][Next]_vars

\* one cohort, simulated again and again
InitRepeat ==
    /\ driver = "repeat"
    /\ nTimeSteps \in 1..RepeatSteps
    /\ popSize \in 1..RepeatPop
    /\ Construct

SpecRepeat == InitRepeat /\ [][Next]_vars

\* one patient, simulated again and again; the interpreter keeps running the
\* call it is in
InitPatient == InitRepeat /\ popSize = 1

SpecPatientFair == InitPatient /\ [][Next]_vars /\ WF_vars(Next)

\* two cohorts built from the same id, matrix, population size and horizon
InitPair ==
    /\ driver = "pair"
    /\ nTimeSteps \in 1..PairSteps
    /\ popSize \in 1..PairPop
    /\ Construct

SpecPair == InitPair /\ [][Next]_vars

\* ------------------------------------- Patient.simulate, run concurrently
\* a caller runs patient.simulate(n_time_steps) for every patient of cohort 2
\* at once (one thread per patient): every call sets its k = 0, then the
\* iterations of the calls' while loops interleave in any order
BatchSimulate(r) ==
    /\ Schedule(r) = "batch"
    /\ MayCall(r)
    /\ pc' = [pc EXCEPT ![r] = "simulating"]
    /\ exc' = [exc EXCEPT ![r] = ""]
    /\ nCalls' = [nCalls EXCEPT ![r] = @ + 1]
    /\ patients' = [patients EXCEPT ![r] = [i \in 1..popSize |-> [@[i] EXCEPT !.k = 0]]]
    /\ UNCHANGED << Inputs, sampled, stream, cur, outcomes, nExtract, nAborted >>

InBatch(r) == Schedule(r) = "batch" /\ pc[r] = "simulating"

BatchStep(r, i) == InBatch(r) /\ Step(r, i)

\* the simulate call of patient i has a row that Empirical rejects: the call
\* is left by ValueError, the calls of the other patients go on
Failed(r, i) ==
    /\ Running(patients[r][i])
    /\ ~ValidRow(matrix[patients[r][i].stateMonitor.currentState])

\* every call is over and one of them was left by ValueError: the caller
\* does not aggregate
BatchRaise(r) ==
    /\ InBatch(r)
    /\ \A i \in 1..popSize : ~Running(patients[r][i]) \/ Failed(r, i)
    /\ \E i \in 1..popSize : Failed(r, i)
    /\ pc' = [pc EXCEPT ![r] = "raised"]
    /\ exc' = [exc EXCEPT ![r] = "ValueError"]
    /\ nAborted' = [nAborted EXCEPT ![r] = @ + 1]
    /\ UNCHANGED << Inputs, sampled, patients, stream, cur, outcomes, nCalls, nExtract >>

\* every call has returned: the caller runs extract_outcomes
BatchExtract(r) ==
    /\ InBatch(r)
    /\ \A i \in 1..popSize : ~Running(patients[r][i])
    /\ Extract(r)

NextBatch ==
    \/ Next
    \/ \E r \in Runs :
          \/ BatchSimulate(r)
          \/ BatchExtract(r)
          \/ BatchRaise(r)
          \/ \E i \in 1..popSize : BatchStep(r, i)

\* both cohorts carry the largest cohort id
InitBatch ==
    /\ driver = "batch"
    /\ nTimeSteps \in 1..PairSteps
    /\ popSize \in 1..PairPop
    /\ Construct
    /\ cohortId[1] = MaxCohortId

SpecBatch == InitBatch /\ [][NextBatch]_vars

\* ------------------------------------- direct PatientStateMonitor.update
\* a caller invokes update(time_step, new_state) on the monitor of patient i
UpdateCall(r, i, time_step, new_state) ==
    /\ driver = "monitor"
    /\ pc[r] = "idle"
    /\ get_if_alive(patients[r][i].stateMonitor) \/ patients[r][i].noOps < MaxNoOps
    /\ patients' = [patients EXCEPT ![r][i] = CallUpdate(@, time_step, new_state)]
    /\ UNCHANGED << Inputs, sampled, stream, pc, cur, exc, outcomes, nCalls, nExtract, nAborted >>

NextMonitor ==
    \E r \in Runs, i \in 1..popSize, t \in 0..MaxTimeStep, s \in HealthStates :
        UpdateCall(r, i, t, s)

\* no simulate call is made: the matrix and the horizon play no part
InitMonitor ==
    /\ driver = "monitor"
    /\ nTimeSteps = 1
    /\ popSize \in 1..RepeatPop
    /\ Construct
    /\ matrix = IdentityMatrix

SpecMonitor == InitMonitor /\ [][NextMonitor]_vars

\* ------------------------------------------------------- Cohort.__init__
\* a driver builds the cohorts one after the other, each with its own id and
\* pop_size; popSize is the pop_size of the constructor call made last and
\* cur[r] the i of its loop
CohortNew(r, id, pop_size) ==
    /\ driver = "build"
    /\ pc[r] = "absent"
    /\ \A q \in Runs : q < r => pc[q] = "idle"
    /\ pc' = [pc EXCEPT ![r] = "building"]
    /\ cohortId' = [cohortId EXCEPT ![r] = id]
    /\ popSize' = pop_size
    /\ patients' = [patients EXCEPT ![r] = << >>]
    /\ cur' = [cur EXCEPT ![r] = 0]
    /\ UNCHANGED << matrix, nTimeSteps, driver, sampled, stream, exc, outcomes,
                    nCalls, nExtract, nAborted >>

\* one iteration of "for i in range(pop_size)"
CohortAppend(r) ==
    /\ pc[r] = "building"
    /\ cur[r] < popSize
    /\ patients' = [patients EXCEPT
                      ![r] = Append(@, NewPatient(PatientId(cohortId[r], popSize, cur[r])))]
    /\ cur' = [cur EXCEPT ![r] = @ + 1]
    /\ UNCHANGED << Inputs, sampled, stream, pc, exc, outcomes, nCalls, nExtract, nAborted >>

\* the constructor returns
CohortBuilt(r) ==
    /\ pc[r] = "building"
    /\ cur[r] = popSize
    /\ pc' = [pc EXCEPT ![r] = "idle"]
    /\ UNCHANGED << Inputs, sampled, patients, stream, cur, exc, outcomes, nCalls,
                    nExtract, nAborted >>

NextBuild ==
    \E r \in Runs :
        \/ \E id \in 0..MaxCohortId, pop_size \in 1..MaxPop : CohortNew(r, id, pop_size)
        \/ CohortAppend(r)
        \/ CohortBuilt(r)

\* no cohort is built yet
InitBuild ==
    /\ driver = "build"
    /\ matrix \in Matrices
    /\ nTimeSteps = 1
    /\ popSize = 1
    /\ cohortId = [r \in Runs |-> 0]
    /\ patients = [r \in Runs |-> << >>]
    /\ stream = [s \in Seeds(MaxPop) |-> << >>]
    /\ pc = [r \in Runs |-> "absent"]
    /\ cur = [r \in Runs |-> 0]
    /\ exc = [r \in Runs |-> ""]
    /\ outcomes = [r \in Runs |-> NewOutcomes]
    /\ nCalls = [r \in Runs |-> 0]
    /\ nExtract = [r \in Runs |-> 0]
    /\ nAborted = [r \in Runs |-> 0]
    /\ sampled = None

SpecBuild == InitBuild /\ [][NextBuild]_vars

\* ------------------------------------ Empirical(probabilities).sample(rng)
\* the probability vectors a caller may pass, entries in units of 1/Denom:
\* every row of every matrix is among them
Probabilities == [HealthStates -> (0 - 1)..(Denom + 1)]

\* the distribution samples: the index for the draw u is returned
EmpiricalSample ==
    /\ driver = "sampler"
    /\ ValidRow(sampled.probabilities)
    /\ ~IsSet(sampled.index)
    /\ sampled' = [sampled EXCEPT !.index = Some(Sample(sampled.probabilities, sampled.u))]
    /\ UNCHANGED << Inputs, patients, stream, pc, cur, exc, outcomes, nCalls,
                    nExtract, nAborted >>

\* the probabilities are rejected: ValueError, no index is returned
EmpiricalRaise ==
    /\ driver = "sampler"
    /\ ~ValidRow(sampled.probabilities)
    /\ sampled.exc = ""
    /\ sampled' = [sampled EXCEPT !.exc = "ValueError"]
    /\ UNCHANGED << Inputs, patients, stream, pc, cur, exc, outcomes, nCalls,
                    nExtract, nAborted >>

NextSampler == EmpiricalSample \/ EmpiricalRaise

\* a probability vector and a uniform draw, no cohort
InitSampler ==
    /\ driver = "sampler"
    /\ matrix = IdentityMatrix
    /\ nTimeSteps = 1
    /\ popSize = 1
    /\ cohortId = [r \in Runs |-> 0]
    /\ patients = [r \in Runs |-> << >>]
    /\ stream = [s \in Seeds(1) |-> << >>]
    /\ pc = [r \in Runs |-> "absent"]
    /\ cur = [r \in Runs |-> 0]
    /\ exc = [r \in Runs |-> ""]
    /\ outcomes = [r \in Runs |-> NewOutcomes]
    /\ nCalls = [r \in Runs |-> 0]
    /\ nExtract = [r \in Runs |-> 0]
    /\ nAborted = [r \in Runs |-> 0]
    /\ \E row \in Probabilities, u \in Draws :
          sampled = [probabilities |-> row, u |-> u, index |-> None, exc |-> ""]

SpecSampler == InitSampler /\ [][NextSampler]_vars

\* ----------------------------------------------------------------- claims
\* the patients of the cohorts built, as << cohort, position >>
Built_Patients == UNION {{r} \X (DOMAIN patients[r]) : r \in Runs}

Pat(g) == patients[g[1]][g[2]]

Mon(g) == patients[g[1]][g[2]].stateMonitor

\* C1: once a patient's currentState is HIV_DEATH it is HIV_DEATH in the next
\* state too, and no step draws from that patient's generator any more (the
\* number of draws taken, rngPos, stays as it is), whatever the matrix and
\* the horizon and however often the cohort is simulated again.
C1_TerminalIsAbsorbing ==
    [][\A g \in Built_Patients :
          Mon(g).currentState = HIV_DEATH
          => /\ patients'[g[1]][g[2]].stateMonitor.currentState = HIV_DEATH
             /\ patients'[g[1]][g[2]].rngPos = Pat(g).rngPos]_vars

\* a patient died in the first call before the horizon, and its simulate of
\* the second call has returned: it is still dead with the draws of its death
C1_Witness ==
    \E g \in Built_Patients :
        /\ nCalls[g[1]] = 2
        /\ cur[g[1]] > g[2]
        /\ Mon(g).currentState = HIV_DEATH
        /\ Pat(g).rngPos < nTimeSteps
        /\ 2 * Pat(g).rngPos = Val(Mon(g).survivalTime) + 1

\* C2: with horizon n, a survivalTime that is set is k + 0.5 for an integer
\* k with 0 <= k <= n - 1 (2k + 1 half-cycles).
C2_SurvivalTimeInRange ==
    \A g \in Built_Patients :
        IsSet(Mon(g).survivalTime)
        => \E k \in 0..(nTimeSteps - 1) : Val(Mon(g).survivalTime) = 2 * k + 1

\* a patient died in the last step of a horizon of at least 2
C2_Witness ==
    \E g \in Built_Patients :
        /\ nTimeSteps >= 2
        /\ IsSet(Mon(g).survivalTime)
        /\ Val(Mon(g).survivalTime) = 2 * nTimeSteps - 1

\* C3 as claimed: whenever timeToAIDS and survivalTime are both set,
\* timeToAIDS <= survivalTime, after any sequence of simulate calls.
C3_EventBeforeDeathAlways ==
    \A g \in Built_Patients :
        (IsSet(Mon(g).timeToAIDS) /\ IsSet(Mon(g).survivalTime))
        => Val(Mon(g).timeToAIDS) <= Val(Mon(g).survivalTime)

\* C3 (amended): for a patient simulated at most once since it was built,
\* timeToAIDS <= survivalTime whenever both are set.
C3_EventBeforeDeathFirstCall ==
    \A g \in Built_Patients :
        (nCalls[g[1]] <= 1 /\ IsSet(Mon(g).timeToAIDS) /\ IsSet(Mon(g).survivalTime))
        => Val(Mon(g).timeToAIDS) <= Val(Mon(g).survivalTime)

\* in its first simulate a patient developed AIDS and died in a later step
C3_Witness ==
    \E g \in Built_Patients :
        /\ nCalls[g[1]] = 1
        /\ IsSet(Mon(g).timeToAIDS)
        /\ IsSet(Mon(g).survivalTime)
        /\ Val(Mon(g).timeToAIDS) < Val(Mon(g).survivalTime)

\* C4: timeToAIDS is assigned at most once: once it holds a value no step
\* changes it, for any row-stochastic matrix.
C4_TimeToAIDSSetOnce ==
    [][\A g \in Built_Patients :
          IsSet(Mon(g).timeToAIDS)
          => patients'[g[1]][g[2]].stateMonitor.timeToAIDS = Mon(g).timeToAIDS]_vars

\* C5: survivalTime is assigned at most once: once it holds a value, no call
\* of update, with any time_step and any new_state, changes it.
C5_SurvivalTimeSetOnce ==
    [][\A g \in Built_Patients :
          IsSet(Mon(g).survivalTime)
          => patients'[g[1]][g[2]].stateMonitor.survivalTime = Mon(g).survivalTime]_vars

\* update was called on a monitor whose survivalTime was already set, and the
\* value is the one of an update at time step 0
C5_Witness ==
    \E g \in Built_Patients :
        /\ driver = "monitor"
        /\ Pat(g).noOps = MaxNoOps
        /\ Mon(g).survivalTime = Some(1)

\* a call of Cohort.simulate on cohort r is over
CallOver(r) == nCalls[r] >= 1 /\ pc[r] \in {"done", "raised"}

Copies(n, v) == [i \in 1..n |-> v]

\* C6: when no patient reached HIV_DEATH within the horizon, or none ever
\* reached AIDS, Cohort.simulate still completes: extract_outcomes raises no
\* division by zero.
C6_EmptyOutcomesNoCrash ==
    \A r \in Runs :
        ( /\ CallOver(r)
          /\ nExtract[r] >= 1
          /\ \/ \A i \in 1..popSize : ~IsSet(patients[r][i].stateMonitor.survivalTime)
             \/ \A i \in 1..popSize : ~patients[r][i].stateMonitor.ifDevelopedAIDS )
        => /\ pc[r] = "done"
           /\ exc[r] # "ZeroDivisionError"

\* C7: with every row moving to HIV_DEATH with probability 1, Cohort.simulate
\* completes with every survivalTime 0.5, survivalTimes N copies of 0.5,
\* meanSurvivalTime 0.5 and a survival curve from N down to 0 at time 0.5.
C7_AllTerminalScenario ==
    \A r \in Runs :
        (matrix = AllTerminalMatrix /\ CallOver(r))
        => /\ pc[r] = "done"
           /\ \A i \in 1..popSize : patients[r][i].stateMonitor.survivalTime = Some(1)
           /\ outcomes[r].survivalTimes = Copies(popSize, 1)
           /\ outcomes[r].meanSurvivalTime = Some([num |-> 1, den |-> 1])
           /\ outcomes[r].nLivingPatients =
                 Some([initial_size |-> popSize,
                       times |-> Copies(popSize, 1),
                       increments |-> Copies(popSize, 0 - 1)])

\* C8: two cohorts built with the same id, population size and matrix and
\* simulated once with the same horizon end with the same survivalTimes and
\* the same timesToAIDS, element for element.
C8_SameArgumentsSameOutcomes ==
    ((\A r \in Runs : CallOver(r)) /\ cohortId[1] = cohortId[2])
    => /\ outcomes[1].survivalTimes = outcomes[2].survivalTimes
       /\ outcomes[1].timesToAIDS = outcomes[2].timesToAIDS

\* both simulations are over; of two patients the first is alive and the
\* second died, and a time to AIDS was recorded
C8_Witness ==
    /\ driver = "pair"
    /\ \A r \in Runs : CallOver(r)
    /\ popSize = 2
    /\ get_if_alive(patients[2][1].stateMonitor)
    /\ ~get_if_alive(patients[2][2].stateMonitor)
    /\ Len(outcomes[2].survivalTimes) = 1
    /\ Len(outcomes[2].timesToAIDS) >= 1

\* the simulate of patient i of cohort r, in the latest Cohort.simulate call,
\* was started and has stopped
Stopped(r, i) ==
    /\ pc[r] \in {"simulating", "done", "raised"}
    /\ \/ i < cur[r]
       \/ i = cur[r] /\ pc[r] = "raised" /\ exc[r] = "ValueError"

\* C9 as claimed: the monitor a patient ends with is the same when the
\* Patient.simulate calls of the cohort run concurrently, their iterations
\* interleaved in any order, as when Cohort.simulate runs them one after the
\* other in creation order.
C9_ScheduleIndependentAlways ==
    (CallOver(1) /\ CallOver(2))
    => \A i \in 1..popSize :
          patients[1][i].stateMonitor = patients[2][i].stateMonitor

\* C9 (amended): for every patient that the sequential Cohort.simulate ran
\* (it is not left by the ValueError of an earlier patient before it reaches
\* that patient), the monitor the patient ends with is the same under every
\* order and interleaving of the Patient.simulate calls as under the
\* sequential run.
C9_ScheduleIndependent ==
    (CallOver(1) /\ CallOver(2))
    => \A i \in 1..popSize :
          Stopped(1, i) => patients[1][i].stateMonitor = patients[2][i].stateMonitor

\* two concurrent calls that took two steps each are over, and the two
\* patients ended differently
C9_Witness ==
    /\ driver = "batch"
    /\ nExtract[1] = 1 /\ nExtract[2] = 1
    /\ popSize = 2
    /\ patients[2][1].rngPos = 2 /\ patients[2][2].rngPos = 2
    /\ patients[2][1].stateMonitor # patients[2][2].stateMonitor

\* every patient of cohort r is HIV_DEATH or has run exactly n steps
AllFinished(r) ==
    \A i \in 1..popSize :
        \/ patients[r][i].stateMonitor.currentState = HIV_DEATH
        \/ patients[r][i].k = nTimeSteps

\* C10 as claimed: extract_outcomes starts only after every patient's
\* simulate has finished, and runs exactly once per Cohort.simulate call.
C10_BarrierOncePerCall ==
    \A r \in Runs :
        /\ nExtract[r] >= 1 => AllFinished(r)
        /\ CallOver(r) => nExtract[r] = nCalls[r]

\* C10 (amended): extract_outcomes starts only after every patient's simulate
\* has finished, and runs exactly once per Cohort.simulate call that no
\* sampling error (ValueError) leaves; a call left by ValueError never runs it.
C10_BarrierOncePerCompletedLoop ==
    \A r \in Runs :
        /\ nExtract[r] >= 1 => AllFinished(r)
        /\ CallOver(r) => nExtract[r] = nCalls[r] - nAborted[r]
        /\ pc[r] = "simulating" => nExtract[r] = nCalls[r] - 1
        /\ (CallOver(r) /\ nAborted[r] > 0) => exc[r] = "ValueError"

\* the aggregation ran after two patients finished, one by dying and one by
\* exhausting the horizon
C10_Witness ==
    \E r \in Runs :
        /\ driver = "single"
        /\ popSize >= 2
        /\ nExtract[r] = 1
        /\ patients[r][1].stateMonitor.currentState = HIV_DEATH
        /\ patients[r][1].k < nTimeSteps
        /\ patients[r][2].stateMonitor.currentState # HIV_DEATH
        /\ patients[r][2].k = nTimeSteps

\* the patients of cohort r whose monitor has a survival time / an AIDS flag
Dead(r) == {i \in 1..popSize : IsSet(patients[r][i].stateMonitor.survivalTime)}

Developed(r) == {i \in 1..popSize : patients[r][i].stateMonitor.ifDevelopedAIDS}

\* the latest Cohort.simulate call on cohort r is over and ran extract_outcomes
Extracted(r) == CallOver(r) /\ exc[r] # "ValueError"

\* C11: after any sequence of Cohort.simulate calls on a cohort, survivalTimes
\* holds exactly one entry per patient whose survivalTime is set and
\* timesToAIDS exactly one entry per patient with ifDevelopedAIDS, so neither
\* holds more than N entries.
C11_PopulatedExactlyOnce ==
    \A r \in Runs :
        Extracted(r)
        => /\ Len(outcomes[r].survivalTimes) = Cardinality(Dead(r))
           /\ Len(outcomes[r].timesToAIDS) = Cardinality(Developed(r))
           /\ Len(outcomes[r].survivalTimes) <= popSize
           /\ Len(outcomes[r].timesToAIDS) <= popSize

\* the patients created so far, as << cohort, position >>
Created == UNION {{r} \X (DOMAIN patients[r]) : r \in Runs}

\* the pop_size cohort r is or was built with
PopSizeOf(r) == IF pc[r] = "building" THEN popSize ELSE Len(patients[r])

\* C12 as claimed: two patients of the same cohort never share an id, and
\* patients of two cohorts with distinct cohort ids never share an id.
C12_IdsGloballyUnique ==
    \A g, h \in Created :
        (g # h /\ (g[1] = h[1] \/ cohortId[g[1]] # cohortId[h[1]]))
        => Pat(g).id # Pat(h).id

\* C12 (amended): two patients of the same cohort never share an id, and
\* patients of two cohorts with distinct cohort ids and the same pop_size
\* never share an id.
C12_IdsUniqueForEqualPopSize ==
    \A g, h \in Created :
        ( /\ g # h
          /\ \/ g[1] = h[1]
             \/ /\ cohortId[g[1]] # cohortId[h[1]]
                /\ PopSizeOf(g[1]) = PopSizeOf(h[1]) )
        => Pat(g).id # Pat(h).id

\* cohorts 0 and 1 of two patients each are built: ids 0, 1 and 2, 3
C12_Witness ==
    /\ driver = "build"
    /\ pc[1] = "idle" /\ pc[2] = "idle"
    /\ cohortId[1] = 0 /\ cohortId[2] = 1
    /\ Len(patients[1]) = 2 /\ Len(patients[2]) = 2
    /\ [i \in 1..2 |-> patients[1][i].id] = << 0, 1 >>
    /\ [i \in 1..2 |-> patients[2][i].id] = << 2, 3 >>

\* how often v occurs in the sequence s
Count(s, v) == Cardinality({i \in DOMAIN s : s[i] = v})

\* the living count after the first k events of the survival curve c
LivingAfter(c, k) == c.initial_size + SumSeq(SubSeq(c.increments, 1, k))

\* C13: the survival curve Cohort.simulate delivers has initial size N, lists
\* the recorded survival times in ascending order, one event of -1 per
\* recorded time (ties as separate events), so the running living count never
\* goes below 0 and ends at N minus the number of patients that reached
\* HIV_DEATH.
C13_SurvivalCurve ==
    \A r \in Runs :
        (pc[r] = "done" /\ IsSet(outcomes[r].nLivingPatients))
        => LET c == Val(outcomes[r].nLivingPatients)
               died == {i \in 1..popSize :
                          patients[r][i].stateMonitor.currentState = HIV_DEATH}
           IN  /\ c.initial_size = popSize
               /\ Len(c.times) = Len(c.increments)
               /\ \A i, j \in DOMAIN c.times : i < j => c.times[i] <= c.times[j]
               /\ \A i \in DOMAIN c.times :
                     Count(c.times, c.times[i]) =
                        Count(outcomes[r].survivalTimes, c.times[i])
               /\ Len(c.times) = Len(outcomes[r].survivalTimes)
               /\ \A i \in DOMAIN c.increments : c.increments[i] = 0 - 1
               /\ \A k \in 0..Len(c.times) : LivingAfter(c, k) >= 0
               /\ LivingAfter(c, Len(c.times)) = popSize - Cardinality(died)

\* the patients of cohort r with a survival time / an AIDS flag, in creation
\* order
DeadInOrder(r) ==
    SelectSeq(patients[r], LAMBDA p : IsSet(p.stateMonitor.survivalTime))

DevelopedInOrder(r) ==
    SelectSeq(patients[r], LAMBDA p : p.stateMonitor.ifDevelopedAIDS)

\* C14: after extract_outcomes, survivalTimes is exactly the subsequence, in
\* creation order, of the survivalTime values of the patients whose
\* survivalTime is set, and timesToAIDS exactly the subsequence, in creation
\* order, of the timeToAIDS values of the patients with ifDevelopedAIDS.
C14_CreationOrderSubsequence ==
    \A r \in Runs :
        Extracted(r)
        => /\ outcomes[r].survivalTimes =
                 [i \in 1..Len(DeadInOrder(r)) |->
                     Val(DeadInOrder(r)[i].stateMonitor.survivalTime)]
           /\ outcomes[r].timesToAIDS =
                 [i \in 1..Len(DevelopedInOrder(r)) |->
                     DevelopedInOrder(r)[i].stateMonitor.timeToAIDS]

\* C15 as claimed: the sampler returns the smallest index j whose cumulative
\* sum c_j >= u (the last index when none is), and so returns index 0 for
\* the vector [1,0,..] and index 1 for [0,1,0,..], for every draw u, u = 0
\* included.
C15_SmallestAtLeast ==
    (driver = "sampler" /\ IsSet(sampled.index))
    => /\ Val(sampled.index) = SampleAtLeast(sampled.probabilities, sampled.u)
       /\ \A s \in HealthStates :
             sampled.probabilities = Unit(s) => Val(sampled.index) = s

\* C15 (amended): the sampler returns the smallest index j whose cumulative
\* sum c_j > u; the index returned never has probability zero, and for every
\* draw u, u = 0 included, the vector [1,0,..] yields index 0 and
\* [0,1,0,..] yields index 1.
C15_SmallestAbove ==
    (driver = "sampler" /\ IsSet(sampled.index))
    => LET j == Val(sampled.index)
           row == sampled.probabilities
       IN  /\ j \in HealthStates
           /\ CumSum(row, j) > sampled.u
           /\ j > 0 => CumSum(row, j - 1) <= sampled.u
           /\ row[j] > 0
           /\ \A s \in HealthStates : row = Unit(s) => j = s

\* the vector [0,1,0,0] was sampled with the draw u = 0 and yielded index 1
C15_Witness ==
    /\ driver = "sampler"
    /\ sampled.probabilities = Unit(CD4_200)
    /\ sampled.u = 0
    /\ sampled.index = Some(CD4_200)

\* the row has a negative entry or does not sum to 1
InvalidDistribution(row) ==
    \/ \E s \in HealthStates : row[s] < 0
    \/ row[CD4_200to500] + row[CD4_200] + row[AIDS] + row[HIV_DEATH] # Denom

\* cohort r is about to run an iteration of the patient cur[r], whose row is
\* invalid
AtInvalidRow(r) ==
    /\ pc[r] = "simulating"
    /\ cur[r] \in 1..popSize
    /\ Running(patients[r][cur[r]])
    /\ InvalidDistribution(matrix[patients[r][cur[r]].stateMonitor.currentState])

\* C16: when the row of the current state of the patient being simulated has
\* a negative entry or a sum other than 1, the step fails with the sampling
\* error (ValueError), it leaves the patient as it was (monitor unchanged, no
\* draw taken, no next state produced from the row), and the patient is not
\* simulated any further by that call.
C16_InvalidRowRaises ==
    [][\A r \in Runs :
          /\ AtInvalidRow(r)
             => /\ pc'[r] = "raised"
                /\ exc'[r] = "ValueError"
                /\ patients'[r] = patients[r]
          /\ (pc[r] = "raised" /\ exc[r] = "ValueError" /\ pc'[r] = "raised")
             => patients'[r] = patients[r]]_vars

\* the second patient of a cohort reached CD4_200, whose row has a negative
\* entry, after the first patient had run to the horizon: the call was left
\* by ValueError with the second patient still in CD4_200 after one draw
C16_Witness ==
    \E r \in Runs :
        /\ driver = "single"
        /\ pc[r] = "raised" /\ exc[r] = "ValueError"
        /\ cur[r] = 2
        /\ patients[r][1].k = nTimeSteps
        /\ patients[r][2].stateMonitor.currentState = CD4_200
        /\ patients[r][2].rngPos = 1
        /\ \E s \in HealthStates : matrix[CD4_200][s] < 0
        /\ nExtract[r] = 0

\* C17: a call of update, with any time_step and any new_state, on a monitor
\* whose currentState is HIV_DEATH leaves currentState, survivalTime,
\* timeToAIDS and ifDevelopedAIDS as they were and raises nothing.
C17_UpdateAfterDeathNoOp ==
    [][\A g \in Built_Patients :
          ( /\ Mon(g).currentState = HIV_DEATH
            /\ patients'[g[1]][g[2]].noOps = Pat(g).noOps + 1 )
          => /\ patients'[g[1]][g[2]].stateMonitor = Mon(g)
             /\ exc' = exc
             /\ pc' = pc]_vars

\* update was called on the monitor of a patient that had developed AIDS and
\* died later: every field is as the death left it
C17_Witness ==
    \E g \in Built_Patients :
        /\ driver = "monitor"
        /\ Pat(g).noOps >= 1
        /\ Mon(g).currentState = HIV_DEATH
        /\ Mon(g).ifDevelopedAIDS
        /\ IsSet(Mon(g).timeToAIDS)
        /\ Val(Mon(g).timeToAIDS) < Val(Mon(g).survivalTime)

\* the loop bound, and the draws a dead patient took in the call it died in
IterationsBounded ==
    \A g \in Built_Patients :
        /\ Pat(g).k \in 0..nTimeSteps
        /\ Mon(g).currentState = HIV_DEATH
           => /\ Pat(g).k = 0 \/ 2 * Pat(g).k = Val(Mon(g).survivalTime) + 1
              /\ nCalls[g[1]] <= 1 => 2 * Pat(g).rngPos = Val(Mon(g).survivalTime) + 1

\* C18 as claimed (its stopping rule): Patient.simulate(n) performs at most n
\* iterations and stops exactly when the horizon is exhausted or the monitor
\* reports not-alive; a patient that died took survivalTime + 0.5 draws.
C18_StopsAtHorizonOrDeath ==
    /\ IterationsBounded
    /\ \A g \in Built_Patients :
          Stopped(g[1], g[2])
          => \/ ~get_if_alive(Mon(g))
             \/ Pat(g).k = nTimeSteps

\* a simulate that has stopped did so at the horizon, at death, or at an
\* invalid row
StopsAtHorizonDeathOrError ==
    \A g \in Built_Patients :
        Stopped(g[1], g[2])
        => \/ ~get_if_alive(Mon(g))
           \/ Pat(g).k = nTimeSteps
           \/ /\ g[2] = cur[g[1]]
              /\ exc[g[1]] = "ValueError"
              /\ InvalidDistribution(matrix[Mon(g).currentState])

\* whatever changes a patient's monitor or generator is one loop iteration:
\* it runs while the patient is alive and k < n, takes exactly one draw, adds
\* one to k and calls update once, with time_step k and a state of positive
\* probability
OneDrawOneUpdate ==
    \A g \in Built_Patients :
        LET p == Pat(g)
            q == patients'[g[1]][g[2]]
        IN  /\ (q.rngPos # p.rngPos \/ q.stateMonitor # p.stateMonitor)
               => /\ get_if_alive(p.stateMonitor) /\ p.k < nTimeSteps
                  /\ q.k = p.k + 1
                  /\ q.rngPos = p.rngPos + 1
                  /\ \E s \in HealthStates :
                        /\ matrix[p.stateMonitor.currentState][s] > 0
                        /\ q.stateMonitor = update(p.stateMonitor, p.k, s)
            /\ q.k # p.k
               => \/ q.k = 0
                  \/ q.k = p.k + 1 /\ q.rngPos = p.rngPos + 1

\* C18 (amended): Patient.simulate(n) always terminates, for every matrix and
\* start state: it performs at most n iterations, each completed iteration
\* takes exactly one draw and calls update once with the time steps 0, 1,
\* 2, ..., and it stops exactly when the horizon is exhausted, the monitor
\* reports not-alive, or the sampling step fails on an invalid row; a patient
\* that died took survivalTime + 0.5 draws in the call it died in.
C18_SimulateTerminates ==
    /\ [](IterationsBounded /\ StopsAtHorizonDeathOrError)
    /\ [][OneDrawOneUpdate]_vars
    /\ \A r \in Runs : (pc[r] = "simulating") ~> (pc[r] \in {"done", "raised"})

\* a patient that ran the first call to the horizon of 2 died in step 0 of
\* the second call: one iteration in that call, three draws in all
C18_Witness ==
    \E g \in Built_Patients :
        /\ nCalls[g[1]] = 2
        /\ pc[g[1]] = "done"
        /\ nTimeSteps = 2
        /\ Pat(g).k = 1
        /\ Pat(g).rngPos = 3
        /\ Mon(g).survivalTime = Some(1)

\* C19: in every reachable state of a patient's monitor, survivalTime is set
\* if and only if currentState is HIV_DEATH, that is if and only if
\* get_if_alive() is false.
C19_SurvivalTimeIffDead ==
    \A g \in Built_Patients :
        /\ IsSet(Mon(g).survivalTime) <=> Mon(g).currentState = HIV_DEATH
        /\ IsSet(Mon(g).survivalTime) <=> ~get_if_alive(Mon(g))

\* of the monitors updated directly, one died at the last time step after
\* developing AIDS and was not updated since
C19_Witness ==
    \E g \in Built_Patients :
        /\ driver = "monitor"
        /\ Pat(g).noOps = 0
        /\ Mon(g).currentState = HIV_DEATH
        /\ Mon(g).survivalTime = Some(HalfCycle(MaxTimeStep))
        /\ Mon(g).ifDevelopedAIDS

\* C20: in every reachable state of a patient's monitor, ifDevelopedAIDS is
\* true if and only if timeToAIDS is set, so no entry of timesToAIDS is an
\* unset value.
C20_DevelopedIffTimeSet ==
    /\ \A g \in Built_Patients : Mon(g).ifDevelopedAIDS <=> IsSet(Mon(g).timeToAIDS)
    /\ \A r \in Runs : \A i \in DOMAIN outcomes[r].timesToAIDS :
          IsSet(outcomes[r].timesToAIDS[i])

\* the outcomes of a cohort of which the second patient developed AIDS and
\* the first did not hold one time to AIDS, the second patient's
C20_Witness ==
    \E r \in Runs :
        /\ driver = "single"
        /\ pc[r] = "done"
        /\ popSize >= 2
        /\ ~patients[r][1].stateMonitor.ifDevelopedAIDS
        /\ patients[r][2].stateMonitor.ifDevelopedAIDS
        /\ outcomes[r].timesToAIDS = << patients[r][2].stateMonitor.timeToAIDS >>
        /\ popSize = 2

====
